---- MODULE Spec2Model ----
(***************************************************************************)
(* Model of src/main.rs: the block lexer take_block and the recursive      *)
(* value builder deconstruct, run over a finite in-memory byte stream.     *)
(* Bytes are the integers 0..255.  A JSON value is a record                *)
(*   [kind, text, items]                                                   *)
(* (serde_json::Value): kind names the variant, text holds the bytes of a  *)
(* String, the literal of a Number or of a Bool, and items holds the       *)
(* elements of an Array or, for an Object, its entries flattened as        *)
(* <<key1, value1, key2, value2, ...>> with every key a String value.      *)
(* The stream never yields an io::Error (io::Cursor, or a readable stdin). *)
(***************************************************************************)
EXTENDS Integers, Sequences, FiniteSets, TLC

\* ------------------------------------------------------------------ bytes
NL == 10
Bang == 33
Hash == 35
Plus == 43
Comma == 44
Minus == 45
Dot == 46
Zero == 48
Nine == 57
Colon == 58
Semi == 59
UpperE == 69
Close == 93
Caret == 94
LowerE == 101
Brace == 125
Tilde == 126

Last(s) == s[Len(s)]
Drop(s, n) == SubSeq(s, n + 1, Len(s))
Take(s, n) == SubSeq(s, 1, IF n < Len(s) THEN n ELSE Len(s))

IsDigit(c) == c >= Zero /\ c <= Nine

\* char::from(u8).is_numeric(): the Latin-1 code points of categories Nd and No
IsNumeric(c) == IsDigit(c) \/ c \in {178, 179, 185, 188, 189, 190}

\* peeking_take_while(is_numeric): the length of the longest numeric prefix
RECURSIVE NumericPrefix(_)
NumericPrefix(r) ==
    IF r # <<>> /\ IsNumeric(r[1]) THEN 1 + NumericPrefix(Tail(r)) ELSE 0

RECURSIVE StripZeros(_)
StripZeros(ds) == IF ds # <<>> /\ ds[1] = Zero THEN StripZeros(Tail(ds)) ELSE ds

RECURSIVE DecimalValue(_)
DecimalValue(ds) ==
    IF ds = <<>> THEN 0 ELSE 10 * DecimalValue(SubSeq(ds, 1, Len(ds) - 1)) + (Last(ds) - Zero)

\* usize::MAX of a 64-bit target, as decimal digits
UsizeMaxDigits ==
    <<49, 56, 52, 52, 54, 55, 52, 52, 48, 55, 51, 55, 48, 57, 53, 53, 49, 54, 49, 53>>

RECURSIVE LexLeq(_, _)
LexLeq(a, b) ==
    IF a = <<>> THEN TRUE
    ELSE IF b = <<>> THEN FALSE
    ELSE IF a[1] # b[1] THEN a[1] < b[1]
    ELSE LexLeq(Tail(a), Tail(b))

\* a length of ten or more significant digits exceeds every stream of the
\* model: it is kept as this value, which take(len) can never satisfy
Saturated == 1000000000

\* str::parse::<usize>() of the collected numeric characters
ParseUsize(ds) ==
    LET sig == StripZeros(ds) IN
    IF ds = <<>> \/ \E i \in 1..Len(ds) : ~IsDigit(ds[i]) THEN [ok |-> FALSE, val |-> 0]
    ELSE IF Len(sig) > 20 \/ (Len(sig) = 20 /\ ~LexLeq(sig, UsizeMaxDigits))
         THEN [ok |-> FALSE, val |-> 0]
    ELSE IF Len(sig) > 9 THEN [ok |-> TRUE, val |-> Saturated]
    ELSE [ok |-> TRUE, val |-> DecimalValue(sig)]

\* ------------------------------------------------------------ take_block
NoBlock(r) == [tag |-> "none", sigil |-> 0, data |-> <<>>, rest |-> r, err |-> ""]
BlockErr(e) == [tag |-> "err", sigil |-> 0, data |-> <<>>, rest |-> <<>>, err |-> e]

\* take_block without its check of the number of bytes read
take_block_unchecked(r) ==
    IF r = <<>> \/ r[1] = NL THEN NoBlock(r)
    ELSE
    LET n == NumericPrefix(r)
        len == ParseUsize(Take(r, n))
        afterLen == Drop(r, n)
    IN  IF ~len.ok THEN BlockErr("reading length")
        ELSE IF afterLen = <<>> THEN BlockErr("eof in colon after length")
        ELSE IF afterLen[1] # Colon THEN BlockErr("missing colon after length")
        ELSE
        LET afterColon == Tail(afterLen)
            data == Take(afterColon, len.val)
        IN  IF Len(afterColon) <= len.val THEN BlockErr("no trailing type")
            ELSE [tag |-> "block", sigil |-> afterColon[len.val + 1], data |-> data,
                  rest |-> Drop(afterColon, len.val + 1), err |-> ""]

\* take_block that reads on behind a newline byte
take_block_skips_newline(r) ==
    IF r = <<>> THEN NoBlock(r)
    ELSE
    LET q == IF r[1] = NL THEN Tail(r) ELSE r
        n == NumericPrefix(q)
        len == ParseUsize(Take(q, n))
        afterLen == Drop(q, n)
    IN  IF q = <<>> THEN NoBlock(q)
        ELSE IF ~len.ok THEN BlockErr("reading length")
        ELSE IF afterLen = <<>> THEN BlockErr("eof in colon after length")
        ELSE IF afterLen[1] # Colon THEN BlockErr("missing colon after length")
        ELSE
        LET afterColon == Tail(afterLen)
            data == Take(afterColon, len.val)
        IN  IF Len(data) # len.val THEN BlockErr("short read")
            ELSE IF Len(afterColon) = len.val THEN BlockErr("no trailing type")
            ELSE [tag |-> "block", sigil |-> afterColon[len.val + 1], data |-> data,
                  rest |-> Drop(afterColon, len.val + 1), err |-> ""]

take_block(r) ==
    IF r = <<>> \/ r[1] = NL THEN NoBlock(r)
    ELSE
    LET n == NumericPrefix(r)
        len == ParseUsize(Take(r, n))
        afterLen == Drop(r, n)
    IN  IF ~len.ok THEN BlockErr("reading length")
        ELSE IF afterLen = <<>> THEN BlockErr("eof in colon after length")
        ELSE IF afterLen[1] # Colon THEN BlockErr("missing colon after length")
        ELSE
        LET afterColon == Tail(afterLen)
            data == Take(afterColon, len.val)
        IN  IF Len(data) # len.val THEN BlockErr("short read")
            ELSE IF Len(afterColon) = len.val THEN BlockErr("no trailing type")
            ELSE [tag |-> "block", sigil |-> afterColon[len.val + 1], data |-> data,
                  rest |-> Drop(afterColon, len.val + 1), err |-> ""]

\* ----------------------------------------------------------------- values
VString(s) == [kind |-> "String", text |-> s, items |-> <<>>]
VNumber(s) == [kind |-> "Number", text |-> s, items |-> <<>>]
VBool(s) == [kind |-> "Bool", text |-> s, items |-> <<>>]
VArray(xs) == [kind |-> "Array", text |-> <<>>, items |-> xs]
VObject(es) == [kind |-> "Object", text |-> <<>>, items |-> es]

TrueText == <<116, 114, 117, 101>>
FalseText == <<102, 97, 108, 115, 101>>
Base64Key == <<98, 97, 115, 101, 54, 52>>

\* String::from_utf8: the well-formed UTF-8 byte sequences
Utf8Width(c) ==
    IF c < 128 THEN 1
    ELSE IF c >= 194 /\ c <= 223 THEN 2
    ELSE IF c >= 224 /\ c <= 239 THEN 3
    ELSE IF c >= 240 /\ c <= 244 THEN 4
    ELSE 0

Utf8Second(c) ==
    IF c = 224 THEN 160..191
    ELSE IF c = 237 THEN 128..159
    ELSE IF c = 240 THEN 144..191
    ELSE IF c = 244 THEN 128..143
    ELSE 128..191

\* a sequence of well-formed characters: the bytes that continue no
\* character (128..191) aside, every byte starts one, of its width, with
\* its continuation bytes behind it and the start of the next after them
Utf8Valid(s) ==
    \A i \in 1..Len(s) :
        LET w == Utf8Width(s[i]) IN
        IF s[i] \in 128..191 THEN i > 1
        ELSE /\ w > 0
             /\ i + w - 1 <= Len(s)
             /\ w >= 2 => s[i + 1] \in Utf8Second(s[i])
             /\ \A j \in (i + 2)..(i + w - 1) : s[j] \in 128..191
             /\ i + w <= Len(s) => s[i + w] \notin 128..191

\* base64::encode: the standard alphabet, padded
B64Char(i) ==
    IF i < 26 THEN 65 + i
    ELSE IF i < 52 THEN 97 + (i - 26)
    ELSE IF i < 62 THEN 48 + (i - 52)
    ELSE IF i = 62 THEN 43
    ELSE 47

B64Pad == 61

RECURSIVE Base64Encode(_)
Base64Encode(s) ==
    IF s = <<>> THEN <<>>
    ELSE IF Len(s) = 1 THEN
        <<B64Char(s[1] \div 4), B64Char((s[1] % 4) * 16), B64Pad, B64Pad>>
    ELSE IF Len(s) = 2 THEN
        <<B64Char(s[1] \div 4), B64Char((s[1] % 4) * 16 + s[2] \div 16),
          B64Char((s[2] % 16) * 4), B64Pad>>
    ELSE
        <<B64Char(s[1] \div 4), B64Char((s[1] % 4) * 16 + s[2] \div 16),
          B64Char((s[2] % 16) * 4 + s[3] \div 64), B64Char(s[3] % 64)>>
        \o Base64Encode(Drop(s, 3))

\* json!({"base64": base64::encode(e.as_bytes())})
Base64Blob(s) == VObject(<<VString(Base64Key), VString(Base64Encode(s))>>)

RECURSIVE DigitRun(_)
DigitRun(s) == IF s # <<>> /\ IsDigit(s[1]) THEN 1 + DigitRun(Tail(s)) ELSE 0

\* str::parse::<serde_json::Number>(): one JSON number and nothing else
\* (a literal too large for f64 does not occur in the modelled payloads)
IsJsonNumber(s) ==
    LET a == IF s # <<>> /\ s[1] = Minus THEN Tail(s) ELSE s IN
    /\ a # <<>>
    /\ IsDigit(a[1])
    /\ LET n == IF a[1] = Zero THEN 1 ELSE DigitRun(a)
           b == Drop(a, n)
           hasFrac == b # <<>> /\ b[1] = Dot
           c == IF hasFrac THEN Drop(b, 1 + DigitRun(Tail(b))) ELSE b
       IN  /\ ~(b # <<>> /\ IsDigit(b[1]))
           /\ hasFrac => DigitRun(Tail(b)) > 0
           /\ \/ c = <<>>
              \/ /\ c[1] \in {LowerE, UpperE}
                 /\ LET d == Tail(c)
                        e == IF d # <<>> /\ d[1] \in {Plus, Minus} THEN Tail(d) ELSE d
                    IN  e # <<>> /\ DigitRun(e) = Len(e)

Good(v) == [ok |-> TRUE, value |-> v, err |-> ""]
Bad(e) == [ok |-> FALSE, value |-> VString(<<>>), err |-> e]

\* decode_scalar with the arm of , as strict as that of ; ^ ~
decode_scalar_strict(b) ==
    IF b.sigil \in {Comma, Semi, Caret, Tilde} THEN
        IF Utf8Valid(b.data) THEN Good(VString(b.data)) ELSE Bad("reading string type")
    ELSE IF b.sigil = Hash THEN
        IF ~Utf8Valid(b.data) THEN Bad("reading number")
        ELSE IF IsJsonNumber(b.data) THEN Good(VNumber(b.data))
        ELSE Bad("invalid number")
    ELSE IF b.sigil = Bang THEN
        IF ~Utf8Valid(b.data) THEN Bad("reading boolean")
        ELSE IF b.data = FalseText \/ b.data = TrueText THEN Good(VBool(b.data))
        ELSE Bad("invalid boolean")
    ELSE Bad("unimplemented")

\* the arms of `match block.sigil` that do not recurse
decode_scalar(b) ==
    IF b.sigil = Comma THEN
        IF Utf8Valid(b.data) THEN Good(VString(b.data)) ELSE Good(Base64Blob(b.data))
    ELSE IF b.sigil \in {Semi, Caret, Tilde} THEN
        IF Utf8Valid(b.data) THEN Good(VString(b.data)) ELSE Bad("reading string type")
    ELSE IF b.sigil = Hash THEN
        IF ~Utf8Valid(b.data) THEN Bad("reading number")
        ELSE IF IsJsonNumber(b.data) THEN Good(VNumber(b.data))
        ELSE Bad("invalid number")
    ELSE IF b.sigil = Bang THEN
        IF ~Utf8Valid(b.data) THEN Bad("reading boolean")
        ELSE IF b.data = FalseText \/ b.data = TrueText THEN Good(VBool(b.data))
        ELSE Bad("invalid boolean")
    ELSE Bad("unimplemented")

\* ---------------------------------------------------- serde_json::Map
RECURSIVE KeyIndex(_, _)
KeyIndex(es, k) ==
    IF es = <<>> THEN 0
    ELSE IF es[Len(es) - 1].text = k THEN Len(es) - 1
    ELSE KeyIndex(SubSeq(es, 1, Len(es) - 2), k)

KeysBelow(es, k) == Cardinality({i \in 1..(Len(es) \div 2) : LexLeq(es[2 * i - 1].text, k)})

\* Map::insert that leaves an existing key with its value
MapInsert_KeepFirst(es, k, v, preserve) ==
    IF KeyIndex(es, k) > 0 THEN es
    ELSE IF preserve THEN es \o <<VString(k), v>>
    ELSE LET p == 2 * KeysBelow(es, k) IN
         SubSeq(es, 1, p) \o <<VString(k), v>> \o Drop(es, p)

\* Map::insert: an existing key keeps its place and takes the new value; a
\* new key goes last when the map preserves insertion order (IndexMap) and
\* to its place in key order otherwise (BTreeMap)
MapInsert(es, k, v, preserve) ==
    LET i == KeyIndex(es, k) IN
    IF i > 0 THEN [es EXCEPT ![i + 1] = v]
    ELSE IF preserve THEN es \o <<VString(k), v>>
    ELSE LET p == 2 * KeysBelow(es, k) IN
         SubSeq(es, 1, p) \o <<VString(k), v>> \o Drop(es, p)

\* contents.into_iter().tuples().map(key.as_str()...).collect::<Result<Map>>():
\* consecutive pairs, a value left over at the end is dropped by tuples()
RECURSIVE CollectPairs(_, _, _)
CollectPairs(contents, acc, preserve) ==
    IF Len(contents) < 2 THEN Good(VObject(acc))
    ELSE IF contents[1].kind # "String" THEN Bad("invalid non-string key")
    ELSE CollectPairs(Drop(contents, 2),
                      MapInsert(acc, contents[1].text, contents[2], preserve), preserve)

build_object(contents, preserve) == CollectPairs(contents, <<>>, preserve)

\* an Array filled from the back
RECURSIVE Reversed(_)
Reversed(xs) == IF xs = <<>> THEN <<>> ELSE Append(Reversed(Tail(xs)), xs[1])
build_array_reversed(contents) == VArray(Reversed(contents))

build_array(contents) == VArray(contents)

\* ------------------------------------------------------------- documents
\* The streams the decoder is run on are serialized from documents.  A
\* document is a sequence of nodes [sigil, payload, kids, value]: a scalar
\* block (its payload framed under its sigil, with the value it stands for),
\* a container block (sigil ] or }, framing its kids), or, with sigil 0, a
\* chunk of raw bytes written to the stream as they are.
Scalar(sigil, payload, value) ==
    [sigil |-> sigil, payload |-> payload, kids |-> <<>>, value |-> value]
Container(sigil, kids) ==
    [sigil |-> sigil, payload |-> <<>>, kids |-> kids, value |-> VString(<<>>)]
Raw(bytes) == [sigil |-> 0, payload |-> bytes, kids |-> <<>>, value |-> VString(<<>>)]

RECURSIVE Decimal(_)
Decimal(n) == IF n < 10 THEN <<Zero + n>> ELSE Decimal(n \div 10) \o <<Zero + (n % 10)>>

Frame(body, sigil) == Decimal(Len(body)) \o <<Colon>> \o body \o <<sigil>>

RECURSIVE Encode(_)
RECURSIVE EncodeAll(_)
Encode(node) ==
    IF node.sigil = 0 THEN node.payload
    ELSE IF node.sigil \in {Close, Brace} THEN Frame(EncodeAll(node.kids), node.sigil)
    ELSE Frame(node.payload, node.sigil)
EncodeAll(nodes) ==
    IF nodes = <<>> THEN <<>> ELSE Encode(nodes[1]) \o EncodeAll(Tail(nodes))

\* bounds of the documents
MaxNodes == 3
MaxParts == 4
MaxDepth == 4
MaxCutNodes == 2
MaxRaw == 4
MaxPayload == 3
MaxAround == 1

TreeAtoms ==
    { Scalar(Comma, <<97>>, VString(<<97>>)),
      Scalar(Tilde, <<>>, VString(<<>>)),
      Scalar(Hash, <<55>>, VNumber(<<55>>)) }

Atoms ==
    TreeAtoms \cup
    { Scalar(Bang, TrueText, VBool(TrueText)),
      Scalar(Comma, <<255>>,
             VObject(<<VString(Base64Key), VString(<<47, 119, 61, 61>>)>>)) }

\* what a tree of one node can be, next to an empty container: a scalar
\* block or a newline byte
Leaves == TreeAtoms \cup {Raw(<<NL>>)}

RECURSIVE TreesOfSize(_)
RECURSIVE ForestsOfSize(_)
TreesOfSize(n) ==
    (IF n = 1 THEN Leaves ELSE {})
    \cup {Container(c, f) : c \in {Close, Brace}, f \in ForestsOfSize(n - 1)}
ForestsOfSize(n) ==
    IF n = 0 THEN {<<>>}
    ELSE UNION {{<<t>> \o f : t \in TreesOfSize(k), f \in ForestsOfSize(n - k)} : k \in 1..n}

Forests(n) == UNION {ForestsOfSize(k) : k \in 0..n}

RECURSIVE SeqsUpTo(_, _)
SeqsUpTo(S, n) ==
    IF n = 0 THEN {<<>>}
    ELSE LET shorter == SeqsUpTo(S, n - 1) IN
         shorter \cup {Append(q, x) : q \in {r \in shorter : Len(r) = n - 1}, x \in S}

\* one object block over up to MaxParts scalar blocks
FlatObjects == {<<Container(Brace, f)>> : f \in SeqsUpTo(Atoms, MaxParts)}

\* an atom inside up to MaxDepth containers
RECURSIVE Nested(_)
Nested(d) ==
    IF d = 0 THEN TreeAtoms
    ELSE LET inner == Nested(d - 1) IN
         inner \cup {Container(c, <<t>>) : c \in {Close, Brace}, t \in inner}

\* a serialized document cut short
Cuts ==
    UNION {{<<Raw(Take(EncodeAll(f), k))>> : k \in 0..(Len(EncodeAll(f)) - 1)} :
           f \in Forests(MaxCutNodes) \ {<<>>}}

\* a container with a newline byte between its blocks, and a block after it
Interrupted ==
    {<<Container(c, before \o <<Raw(<<NL>>)>> \o after), t>> :
        c \in {Close, Brace}, before \in SeqsUpTo(TreeAtoms, MaxAround),
        after \in SeqsUpTo(TreeAtoms, MaxAround), t \in TreeAtoms}

\* a block, then a container in a container whose last part is no block:
\* a lone colon, a frame cut after its colon, a ; block that is no text, a
\* boolean that is neither literal
BadLeaves ==
    {Raw(<<Colon>>), Raw(<<Zero + 1, Colon>>), Raw(Frame(<<255>>, Semi)),
     Raw(Frame(<<97>>, Bang))}
Broken ==
    {<<t, Container(outer, <<Container(inner, before \o <<bad>>)>>)>> :
        t \in TreeAtoms, outer \in {Close, Brace}, inner \in {Close, Brace},
        before \in SeqsUpTo(TreeAtoms, MaxAround), bad \in BadLeaves}

RawBytes == {Zero, Zero + 1, Colon, Comma, Close, NL}
RawStreams == {<<Raw(r)>> : r \in SeqsUpTo(RawBytes, MaxRaw)}

\* one string-like block over every short payload: ASCII, a two-byte
\* character (195 169) and bytes that are no UTF-8
PayloadBytes == {97, 169, 195, 255}
StringBlocks ==
    {<<Raw(Frame(p, c))>> : p \in SeqsUpTo(PayloadBytes, MaxPayload),
                             c \in {Comma, Semi, Caret, Tilde}}

\* the input of the test `trivial` and the value it asserts
CanonicalInput ==
    <<55, 53, 58, 55, 58, 104, 101, 97, 100, 101, 114, 115, 59, 54, 49, 58, 51, 51,
      58, 49, 51, 58, 67, 97, 99, 104, 101, 45, 67, 111, 110, 116, 114, 111, 108, 44,
      49, 50, 58, 110, 111, 45, 116, 114, 97, 110, 115, 102, 111, 114, 109, 44, 93,
      50, 48, 58, 54, 58, 80, 114, 97, 103, 109, 97, 44, 56, 58, 110, 111, 45, 99, 97,
      99, 104, 101, 44, 93, 93, 125>>
Headers == <<104, 101, 97, 100, 101, 114, 115>>
CacheControl == <<67, 97, 99, 104, 101, 45, 67, 111, 110, 116, 114, 111, 108>>
NoTransform == <<110, 111, 45, 116, 114, 97, 110, 115, 102, 111, 114, 109>>
Pragma == <<80, 114, 97, 103, 109, 97>>
NoCache == <<110, 111, 45, 99, 97, 99, 104, 101>>
CanonicalValue ==
    VObject(<<VString(Headers),
              VArray(<<VArray(<<VString(CacheControl), VString(NoTransform)>>),
                       VArray(<<VString(Pragma), VString(NoCache)>>)>>)>>)
Str(sigil, s) == Scalar(sigil, s, VString(s))
CanonicalDoc ==
    <<Container(Brace,
        <<Str(Semi, Headers),
          Container(Close,
            <<Container(Close, <<Str(Comma, CacheControl), Str(Comma, NoTransform)>>),
              Container(Close, <<Str(Comma, Pragma), Str(Comma, NoCache)>>)>>)>>)>>

\* further streams: numbers, booleans, an unknown sigil, lengths that are
\* numeric but no decimal, too long for usize, or longer than the stream
Samples ==
    { CanonicalDoc,
      <<Scalar(Bang, FalseText, VBool(FalseText))>>,
      <<Scalar(Hash, <<45, 49, 46, 53, 101, 50>>, VNumber(<<45, 49, 46, 53, 101, 50>>))>>,
      <<Raw(Frame(<<121, 101, 115>>, Bang))>>,
      <<Raw(Frame(<<48, 55>>, Hash))>>,
      <<Raw(Frame(<<255>>, Hash))>>,
      <<Raw(Frame(<<255>>, Bang))>>,
      <<Raw(Frame(<<97>>, 63))>>,
      <<Raw(<<178, Colon, Comma>>)>>,
      <<Raw(<<48, 48, 49, Colon, 97, Comma>>)>>,
      <<Raw(UsizeMaxDigits \o <<Colon, 97, Comma>>)>>,
      <<Raw(<<49>> \o UsizeMaxDigits \o <<Colon, 97, Comma>>)>>,
      <<Raw(<<49, 56, 52, 52, 54, 55, 52, 52, 48, 55, 51, 55, 48, 57, 53, 53, 49, 54, 49, 54,
              Colon, 97, Comma>>)>>,
      <<Raw(<<49, 48, Colon, 97, 97, 97, 97, 97>>)>> }

Docs ==
    Forests(MaxNodes) \cup FlatObjects \cup {<<t>> : t \in Nested(MaxDepth)}
    \cup Interrupted \cup Broken \cup Cuts \cup RawStreams \cup StringBlocks \cup Samples

\* ------------------------------------------------------------- the decoder
VARIABLES
    doc,             \* the document the stream was serialized from
    input,           \* the bytes handed to the outermost deconstruct
    preserve_order,  \* whether serde_json is built with its preserve_order feature
    stack,           \* the deconstruct calls, outermost first: the active ones while
                     \* running, and as they stood when the outermost call returned
    bodies,          \* the values the outermost callback has received
    block,           \* what the last take_block call returned
    returned,        \* the cursor of the deconstruct call that returned Ok last
    result,          \* "running", or what the outermost deconstruct returned
    error            \* the innermost message of the error returned

vars == <<doc, input, preserve_order, stack, bodies, block, returned, result, error>>

\* one deconstruct call: its cursor (range, rest), the sigil of the block it
\* decodes (0 for the outermost call) and what its callback has collected
Call(sigil, data) == [sigil |-> sigil, range |-> data, rest |-> data, contents |-> <<>>]

Top == stack[Len(stack)]
Running == result = "running"

Init ==
    /\ doc \in Docs
    /\ input = EncodeAll(doc)
    /\ preserve_order \in BOOLEAN
    /\ stack = <<Call(0, input)>>
    /\ bodies = <<>>
    /\ block = NoBlock(<<>>)
    /\ returned = <<>>
    /\ result = "running"
    /\ error = ""

\* an error that hands the callback what the call on top has collected
Fail_DeliversPartial(e) ==
    /\ result' = "Err"
    /\ error' = e
    /\ bodies' = Append(bodies, VArray(Top.contents))
    /\ UNCHANGED <<stack, returned>>

\* `?` out of every active call
Fail(e) ==
    /\ result' = "Err"
    /\ error' = e
    /\ UNCHANGED <<stack, bodies, returned>>

\* cb(value) of the call on top of st: the outermost callback receives the
\* value, an inner one pushes it onto the contents of its container
Deliver(st, v) ==
    IF Len(st) = 1
    THEN /\ bodies' = Append(bodies, v)
         /\ stack' = st
    ELSE /\ stack' = [st EXCEPT ![Len(st)].contents = Append(@, v)]
         /\ bodies' = bodies

\* a cursor that stays where it was
Advanced_Stuck(b) == stack

\* the call on top has read block b off its range
Advanced(b) == [stack EXCEPT ![Len(stack)].rest = b.rest]

\* Every step is one pass of the `while let` loop of the call on top: it
\* starts with take_block on what is left of that call's range.
TakeBlockFails ==
    /\ Running
    /\ \E b \in {take_block(Top.rest)} :
        /\ b.tag = "err"
        /\ block' = b
        /\ Fail(b.err)
    /\ UNCHANGED <<doc, input, preserve_order>>

EnterContainer ==
    /\ Running
    /\ \E b \in {take_block(Top.rest)} :
        /\ b.tag = "block"
        /\ b.sigil \in {Close, Brace}
        /\ block' = b
        /\ stack' = Append(Advanced(b), Call(b.sigil, b.data))
    /\ UNCHANGED <<doc, input, preserve_order, bodies, returned, result, error>>

ScalarValue ==
    /\ Running
    /\ \E b \in {take_block(Top.rest)} :
        /\ b.tag = "block"
        /\ b.sigil \notin {Close, Brace}
        /\ \E v \in {decode_scalar(b)} :
            /\ v.ok
            /\ block' = b
            /\ Deliver(Advanced(b), v.value)
    /\ UNCHANGED <<doc, input, preserve_order, returned, result, error>>

ScalarFails ==
    /\ Running
    /\ \E b \in {take_block(Top.rest)} :
        /\ b.tag = "block"
        /\ b.sigil \notin {Close, Brace}
        /\ \E v \in {decode_scalar(b)} :
            /\ ~v.ok
            /\ block' = b
            /\ Fail(v.err)
    /\ UNCHANGED <<doc, input, preserve_order>>

\* an inner call returns Ok(()) and its caller builds the container
ReturnArray ==
    /\ Running
    /\ Len(stack) > 1
    /\ Top.sigil = Close
    /\ \E b \in {take_block(Top.rest)} :
        /\ b.tag = "none"
        /\ block' = b
    /\ returned' = <<Top>>
    /\ Deliver(SubSeq(stack, 1, Len(stack) - 1), build_array(Top.contents))
    /\ UNCHANGED <<doc, input, preserve_order, result, error>>

ReturnObject ==
    /\ Running
    /\ Len(stack) > 1
    /\ Top.sigil = Brace
    /\ \E b \in {take_block(Top.rest)} :
        /\ b.tag = "none"
        /\ block' = b
    /\ \E v \in {build_object(Top.contents, preserve_order)} :
        /\ v.ok
        /\ Deliver(SubSeq(stack, 1, Len(stack) - 1), v.value)
    /\ returned' = <<Top>>
    /\ UNCHANGED <<doc, input, preserve_order, result, error>>

ObjectFails ==
    /\ Running
    /\ Len(stack) > 1
    /\ Top.sigil = Brace
    /\ \E b \in {take_block(Top.rest)} :
        /\ b.tag = "none"
        /\ block' = b
    /\ \E v \in {build_object(Top.contents, preserve_order)} :
        /\ ~v.ok
        /\ result' = "Err"
        /\ error' = v.err
    /\ returned' = <<Top>>
    /\ UNCHANGED <<doc, input, preserve_order, stack, bodies>>

\* the outermost call returns Ok(()), and main after it
Finish ==
    /\ Running
    /\ Len(stack) = 1
    /\ \E b \in {take_block(Top.rest)} :
        /\ b.tag = "none"
        /\ block' = b
    /\ returned' = <<Top>>
    /\ result' = "Ok"
    /\ UNCHANGED <<doc, input, preserve_order, stack, bodies, error>>

Next ==
    \/ TakeBlockFails
    \/ EnterContainer
    \/ ScalarValue
    \/ ScalarFails
    \/ ReturnArray
    \/ ReturnObject
    \/ ObjectFails
    \/ Finish

Spec == Init /\ [][Next]_vars

\* The decoder runs on its own: a step that can be taken is taken.  Runs
\* are followed to their end on the documents that nest deepest, on those
\* with a newline byte inside a container, and on the further streams.
LiveDocs ==
    {<<t>> : t \in Nested(MaxDepth)} \cup Samples
    \cup {<<Container(Brace, f)>> : f \in SeqsUpTo(TreeAtoms, 2)}
    \cup {<<Container(c, <<t, Raw(<<NL>>), t>>), t>> : c \in {Close, Brace}, t \in TreeAtoms}

InitLive == Init /\ doc \in LiveDocs

LiveSpec == InitLive /\ [][Next]_vars /\ WF_vars(Next)

\* ------------------------------------------------- the format, as specified
\* What the claims are stated against: the grammar of a frame and the value
\* a document stands for, defined on their own and not through the decoder.

\* the length of the complete frame  digit+ ":" payload sigil  that s starts
\* with, 0 when it starts with none
FrameEnd(s) ==
    LET d == DigitRun(s)
        sig == StripZeros(Take(s, d))
    IN  IF d = 0 \/ Len(s) < d + 1 \/ Len(sig) > 9 THEN 0
        ELSE IF s[d + 1] # Colon THEN 0
        ELSE IF Len(s) < d + 2 + DecimalValue(sig) THEN 0
        ELSE d + 2 + DecimalValue(sig)

RECURSIVE CountFrames(_)
CountFrames(s) == IF FrameEnd(s) = 0 THEN 0 ELSE 1 + CountFrames(Drop(s, FrameEnd(s)))

RECURSIVE IsFrameSeq(_)
IsFrameSeq(s) == s = <<>> \/ (FrameEnd(s) > 0 /\ IsFrameSeq(Drop(s, FrameEnd(s))))

\* the bytes a call has consumed from its range
Consumed(call) == Take(call.range, Len(call.range) - Len(call.rest))

IsStringNode(node) == node.sigil \notin {0, Close, Brace} /\ node.value.kind = "String"

\* a node of the grammar: no raw bytes, every object an even number of
\* parts with a String block for each key
RECURSIVE WellFormed(_)
WellFormed(node) ==
    /\ node.sigil # 0
    /\ \A i \in 1..Len(node.kids) : WellFormed(node.kids[i])
    /\ node.sigil = Brace =>
         /\ Len(node.kids) % 2 = 0
         /\ \A i \in 1..Len(node.kids) : i % 2 = 1 => IsStringNode(node.kids[i])

WellFormedDoc(d) == \A i \in 1..Len(d) : WellFormed(d[i])

\* the entries of an Object value
Entries(v) == 1..(Len(v.items) \div 2)
EntryKey(v, i) == v.items[2 * i - 1]
EntryValue(v, i) == v.items[2 * i]
DistinctKeys(v) == \A i, j \in Entries(v) : EntryKey(v, i) = EntryKey(v, j) => i = j

\* the last pair of parts that has the key of pair i
LastPair(keys, i) ==
    CHOOSE j \in 1..Len(keys) : keys[j] = keys[i] /\ \A k \in (j + 1)..Len(keys) : keys[k] # keys[i]

\* value v is what a well-formed node stands for: a scalar its value, an
\* array its kids' values in order, an object the JSON object of its pairs
\* (a key that occurs twice has the value of its last pair)
RECURSIVE Matches(_, _)
Matches(v, node) ==
    IF node.sigil = Close THEN
        /\ v.kind = "Array"
        /\ Len(v.items) = Len(node.kids)
        /\ \A i \in 1..Len(node.kids) : Matches(v.items[i], node.kids[i])
    ELSE IF node.sigil = Brace THEN
        LET keys == [i \in 1..(Len(node.kids) \div 2) |-> node.kids[2 * i - 1].value] IN
        /\ v.kind = "Object"
        /\ DistinctKeys(v)
        /\ \A e \in Entries(v) : \E i \in 1..Len(keys) : EntryKey(v, e) = keys[i]
        /\ \A i \in 1..Len(keys) : \E e \in Entries(v) :
              /\ EntryKey(v, e) = keys[i]
              /\ Matches(EntryValue(v, e), node.kids[2 * LastPair(keys, i)])
    ELSE v = node.value

\* ------------------------------------------------------------------ claims

\* C1 (as claimed): an object block whose payload decodes to an odd number
\* of values makes deconstruct return an error, and no Object is delivered
\* for it.
C1_OddObjectIsError ==
    (returned # <<>> /\ returned[1].sigil = Brace /\ Len(returned[1].contents) % 2 = 1)
        => result = "Err"

\* C2 (as claimed): of a stream of well-formed blocks with newline bytes
\* between some of them, every block is decoded and delivered, in order,
\* once decoding has ended.
IsStream(d) ==
    /\ Len(d) >= 3
    /\ \A i \in 1..Len(d) : d[i] = Raw(<<NL>>) \/ WellFormed(d[i])
    /\ \A i \in 1..Len(d) : d[i] = Raw(<<NL>>) =>
          i \in 2..(Len(d) - 1) /\ WellFormed(d[i - 1]) /\ WellFormed(d[i + 1])
BlocksOf(d) == SelectSeq(d, LAMBDA node : node.sigil # 0)
C2_EveryDocumentDelivered ==
    (IsStream(doc) /\ result = "Ok") =>
        /\ Len(bodies) = Len(BlocksOf(doc))
        /\ \A i \in 1..Len(bodies) : Matches(bodies[i], BlocksOf(doc)[i])

\* C3 (as claimed): when deconstruct returns an error, the callback has
\* received no value from the input.
C3_NoValueBeforeError == result = "Err" => bodies = <<>>

\* C3 (amended): decoding stops at the first error: the failing step hands
\* nothing to the outermost callback, nothing happens after it, and what the
\* callback has received by then is one value for each top-level frame that
\* was consumed before the top-level block in which the error lies.
C3_FailFast ==
    [][/\ result = "Err" => FALSE
       /\ result' = "Err" =>
            /\ bodies' = bodies
            /\ Len(bodies) = CountFrames(Consumed(stack[1]))
                               - (IF Len(stack) > 1 THEN 1 ELSE 0)
            /\ IsFrameSeq(Consumed(stack[1]))]_vars

C3_Witness ==
    /\ result = "Err"
    /\ Len(stack) > 2 /\ Last(stack).contents # <<>>
    /\ Len(bodies) >= 1

\* C4: a well-formed document without newline bytes is decoded without
\* error, the callback receives one value per top-level block, in order,
\* each the value its block stands for (arrays in payload order, objects
\* from consecutive pairs, to any depth); the input of the test yields the
\* one Object the test asserts.
C4_WellFormedDecodes ==
    /\ WellFormedDoc(doc) =>
         /\ result # "Err"
         /\ Len(bodies) <= Len(doc)
         /\ \A i \in 1..Len(bodies) : Matches(bodies[i], doc[i])
         /\ result = "Ok" => Len(bodies) = Len(doc)
    /\ (input = CanonicalInput /\ result = "Ok") => bodies = <<CanonicalValue>>

C4_Witness == input = CanonicalInput /\ result = "Ok" /\ bodies = <<CanonicalValue>>

\* the value the callback called last was handed
LastDelivered(st, bd) == IF Len(st) = 1 THEN Last(bd) ELSE Last(Last(st).contents)

\* C5: a Block that take_block returns holds exactly the declared number of
\* bytes, those that follow the colon (none for length 0), the byte after
\* them is its sigil; and when the header declares more bytes than remain
\* after the colon, take_block returns the short-read error.
FitsUsize(sig) == Len(sig) < 20 \/ (Len(sig) = 20 /\ LexLeq(sig, UsizeMaxDigits))
C5_LengthInvariant ==
    [][LET r == Top.rest
           d == DigitRun(r)
           sig == StripZeros(Take(r, d))
           after == Drop(r, d + 1)
       IN  /\ block'.tag = "block" =>
                /\ d > 0 /\ Len(sig) <= 9 /\ r[d + 1] = Colon
                /\ Len(block'.data) = DecimalValue(sig)
                /\ block'.data = SubSeq(after, 1, DecimalValue(sig))
                /\ block'.sigil = after[DecimalValue(sig) + 1]
                /\ block'.rest = Drop(after, DecimalValue(sig) + 1)
           /\ (/\ d > 0 /\ Len(r) > d /\ r[d + 1] = Colon /\ FitsUsize(sig)
               /\ (Len(sig) > 9 \/ Len(after) < DecimalValue(sig))) =>
                /\ block'.tag = "err" /\ block'.err = "short read"
                /\ result' = "Err" /\ error' = "short read"]_vars

C5_Witness ==
    /\ result = "Err" /\ error = "short read"
    /\ Len(bodies) >= 1 /\ bodies[1] = VString(<<>>)

\* a deconstruct call for an object block has returned Ok and its caller
\* has delivered the Object
ObjectBuilt ==
    /\ Len(stack) > 1 /\ Top.sigil = Brace
    /\ block'.tag = "none" /\ result' = "running"

\* C6 (as claimed): the Object has one entry per pair of the body, 2n values
\* giving n entries (in the order of the pairs, where the build of the map
\* keeps insertion order at all).
C6_OneEntryPerPair ==
    [][ObjectBuilt =>
         LET obj == LastDelivered(stack', bodies')
             pairs == Take(Top.contents, 2 * (Len(Top.contents) \div 2))
         IN  /\ Len(obj.items) = Len(pairs)
             /\ preserve_order => obj.items = pairs]_vars

\* C6 (amended): the Object has one entry per distinct key of the body's
\* pairs, each key with the value of the last pair that has it; n pairs give
\* n entries exactly when their keys differ.  The entries are in the order
\* in which their keys first occur when the map keeps insertion order, and
\* in ascending key order otherwise.
C6_OneEntryPerKey ==
    [][ObjectBuilt =>
         LET obj == LastDelivered(stack', bodies')
             c == Top.contents
             n == Len(c) \div 2
             keys == [i \in 1..n |-> c[2 * i - 1]]
             first == {i \in 1..n : \A j \in 1..(i - 1) : keys[j] # keys[i]}
         IN  /\ obj.kind = "Object"
             /\ DistinctKeys(obj)
             /\ Cardinality(Entries(obj)) = Cardinality({keys[i] : i \in 1..n})
             /\ \A i \in 1..n : \E e \in Entries(obj) :
                   /\ EntryKey(obj, e) = keys[i]
                   /\ EntryValue(obj, e) = c[2 * LastPair(keys, i)]
             /\ preserve_order =>
                   \A e \in Entries(obj) :
                       \E i \in first : /\ EntryKey(obj, e) = keys[i]
                                        /\ Cardinality({j \in first : j < i}) = e - 1
             /\ ~preserve_order =>
                   \A e \in Entries(obj) : e > 1 =>
                       /\ LexLeq(EntryKey(obj, e - 1).text, EntryKey(obj, e).text)
                       /\ EntryKey(obj, e - 1) # EntryKey(obj, e)]_vars

C6_Witness ==
    /\ result = "running" /\ block.tag = "none"
    /\ returned # <<>> /\ returned[1].sigil = Brace
    /\ Len(returned[1].contents) = 4
    /\ returned[1].contents[1] = returned[1].contents[3]
    /\ returned[1].contents[2] # returned[1].contents[4]

\* C7 (as claimed): when a value at an even index (0, 2, ...) of the body of
\* an object block is no String, deconstruct returns the non-string-key
\* error, so that no Object is delivered for such a body.
C7_NonStringKeyIsError ==
    (/\ returned # <<>> /\ returned[1].sigil = Brace
     /\ \E i \in 1..Len(returned[1].contents) :
            i % 2 = 1 /\ returned[1].contents[i].kind # "String")
        => (result = "Err" /\ error = "invalid non-string key")

\* text, by code points: every character is a scalar value in its shortest
\* encoding
Continuation(c) == c >= 128 /\ c <= 191
RECURSIVE IsText(_)
IsText(s) ==
    \/ s = <<>>
    \/ s[1] < 128 /\ IsText(Tail(s))
    \/ /\ Len(s) >= 2 /\ s[1] >= 192 /\ s[1] <= 223 /\ Continuation(s[2])
       /\ (s[1] - 192) * 64 + (s[2] - 128) >= 128
       /\ IsText(Drop(s, 2))
    \/ /\ Len(s) >= 3 /\ s[1] >= 224 /\ s[1] <= 239
       /\ Continuation(s[2]) /\ Continuation(s[3])
       /\ LET cp == (s[1] - 224) * 4096 + (s[2] - 128) * 64 + (s[3] - 128)
          IN  cp >= 2048 /\ ~(cp >= 55296 /\ cp <= 57343)
       /\ IsText(Drop(s, 3))
    \/ /\ Len(s) >= 4 /\ s[1] >= 240 /\ s[1] <= 247
       /\ Continuation(s[2]) /\ Continuation(s[3]) /\ Continuation(s[4])
       /\ LET cp == (s[1] - 240) * 262144 + (s[2] - 128) * 4096
                    + (s[3] - 128) * 64 + (s[4] - 128)
          IN  cp >= 65536 /\ cp <= 1114111
       /\ IsText(Drop(s, 4))

\* base64 decoding (standard alphabet, padded); <<-1>> for what is no base64
B64Index(c) ==
    IF c >= 65 /\ c <= 90 THEN c - 65
    ELSE IF c >= 97 /\ c <= 122 THEN c - 71
    ELSE IF c >= 48 /\ c <= 57 THEN c + 4
    ELSE IF c = 43 THEN 62
    ELSE IF c = 47 THEN 63
    ELSE -1

RECURSIVE Base64Decode(_)
Base64Decode(t) ==
    IF t = <<>> THEN <<>>
    ELSE IF Len(t) < 4 \/ B64Index(t[1]) < 0 \/ B64Index(t[2]) < 0 THEN <<-1>>
    ELSE LET a == B64Index(t[1])
             b == B64Index(t[2])
             c == B64Index(t[3])
             d == B64Index(t[4])
         IN  IF t[3] = B64Pad /\ t[4] = B64Pad /\ Len(t) = 4 /\ b % 16 = 0
             THEN <<a * 4 + b \div 16>>
             ELSE IF c >= 0 /\ t[4] = B64Pad /\ Len(t) = 4 /\ c % 4 = 0
             THEN <<a * 4 + b \div 16, (b % 16) * 16 + c \div 4>>
             ELSE IF c >= 0 /\ d >= 0
             THEN <<a * 4 + b \div 16, (b % 16) * 16 + c \div 4, (c % 4) * 64 + d>>
                  \o Base64Decode(Drop(t, 4))
             ELSE <<-1>>

\* C8: a block with sigil , is never an error: a payload that is text is
\* delivered as that String, any other payload as an Object with the one
\* key "base64" whose String value base64-decodes to the payload; a block
\* with sigil ; ^ or ~ whose payload is no text is an error.
C8_PlainStringNeverFails ==
    [][/\ (block'.tag = "block" /\ block'.sigil = Comma) =>
            /\ result' = "running"
            /\ LET v == LastDelivered(stack', bodies') IN
               IF IsText(block'.data) THEN v = VString(block'.data)
               ELSE /\ v.kind = "Object"
                    /\ Len(v.items) = 2
                    /\ v.items[1] = VString(Base64Key)
                    /\ v.items[2].kind = "String"
                    /\ Base64Decode(v.items[2].text) = block'.data
       /\ (block'.tag = "block" /\ block'.sigil \in {Semi, Caret, Tilde}
              /\ ~IsText(block'.data)) =>
            result' = "Err"]_vars

C8_Witness ==
    /\ block.tag = "block" /\ block.sigil = Comma
    /\ ~IsText(block.data) /\ Len(block.data) = 2
    /\ result = "running"
    /\ bodies = <<Base64Blob(block.data)>>

\* C9: every run ends.  A returned Block has taken at least three bytes from
\* its range, a call for a container runs on a range at least three bytes
\* shorter than the range the container's frame was read from, so that the
\* nesting of calls is bounded by the input's length; every step decreases
\* the bytes still to read plus the calls still to return; and a well-formed
\* document, however deep, ends in Ok.
RECURSIVE Unread(_)
Unread(st) == IF st = <<>> THEN 0 ELSE Len(st[1].rest) + Unread(Tail(st))
Variant == Unread(stack) + Len(stack) + (IF Running THEN 1 ELSE 0)
C9_Terminates ==
    /\ [][/\ block'.tag = "block" => Len(block'.rest) <= Len(Top.rest) - 3
          /\ Len(stack') > Len(stack) =>
                Len(Last(stack').range) <= Len(Top.range) - 3
          /\ Variant' < Variant]_vars
    /\ [](3 * (Len(stack) - 1) <= Len(input))
    /\ [](WellFormedDoc(doc) => result # "Err")
    /\ <>(result # "running")

RECURSIVE Depth(_)
Depth(v) ==
    IF v.kind \in {"Array", "Object"}
    THEN 1 + (IF v.items = <<>> THEN 0
              ELSE LET ds == {Depth(v.items[i]) : i \in 1..Len(v.items)}
                   IN  CHOOSE m \in ds : \A k \in ds : k <= m)
    ELSE 0

C9_Witness ==
    /\ result = "Ok" /\ WellFormedDoc(doc)
    /\ \E i \in 1..Len(bodies) : Depth(bodies[i]) >= MaxDepth

\* C10: when a deconstruct call returns Ok, what it has consumed of its
\* range is a sequence of complete frames, and what is left of it is empty
\* or starts with a newline byte, which stays unconsumed; the values it has
\* collected are those of the consumed frames alone.  When the call was for
\* a container, the container is built from those values and its caller
\* goes on right after the container's sigil.
C10_Consumption ==
    [][block'.tag = "none" =>
         LET f == Top
             got == IF Len(stack) = 1 THEN bodies ELSE f.contents
         IN  /\ f.rest = <<>> \/ f.rest[1] = NL
             /\ IsFrameSeq(Consumed(f))
             /\ Len(got) = CountFrames(Consumed(f))
             /\ block'.rest = f.rest
             /\ returned' = <<f>>
             /\ (Len(stack) > 1 /\ result' = "running") =>
                  LET caller == stack[Len(stack) - 1]
                      read == Consumed(caller)
                      v == LastDelivered(stack', bodies')
                  IN  /\ Len(stack') = Len(stack) - 1
                      /\ Last(stack').rest = caller.rest
                      /\ IsFrameSeq(read)
                      /\ Last(read) = f.sigil
                      /\ SubSeq(read, Len(read) - Len(f.range), Len(read) - 1) = f.range
                      /\ f.sigil = Close => v = VArray(got)
                      /\ v.kind = (IF f.sigil = Close THEN "Array" ELSE "Object")
                      /\ Len(v.items) <= Len(got)]_vars

C10_Witness ==
    /\ result = "running" /\ block.tag = "none"
    /\ returned # <<>> /\ returned[1].sigil = Close
    /\ returned[1].contents # <<>>
    /\ Len(returned[1].rest) > 1 /\ returned[1].rest[1] = NL
    /\ Top.rest # <<>>

====
